---- MODULE Spec2Model ----
(***************************************************************************)
(* ci/clang_check_attributes.py: the MT_SAFE call-graph checker.           *)
(*                                                                         *)
(* The program under analysis (the AST that libclang hands to the script)  *)
(* is the input.  It is chosen in Init and never changes.  The script's    *)
(* globals PRINTED, UNSAFE_CALLS, TRANSLATE_UNITS and the local files_read *)
(* are the state; the recursions of find_funcs and print_funcs are run one *)
(* loop iteration per step over an explicit call stack.                    *)
(*                                                                         *)
(* Strings that the script inspects character by character (paths, fully   *)
(* qualified names, exclusion prefixes) are sequences of one-character     *)
(* strings, so that startswith, endswith and replace are computed.         *)
(***************************************************************************)
EXTENDS Integers, Sequences, FiniteSets, TLC

\* ------------------------------------------------------------------ bounds
\* Longest list of call expressions in the body of the entry method A.
MaxCalls == 2
\* Longest list of compile commands.
MaxCmds == 2
\* Depth of the interpreter's call stack at which a recursion is abandoned.
RecursionLimit == 12

\* ------------------------------------------------------------- characters
Range(s) == {s[i] : i \in DOMAIN s}

SeqsUpTo(S, n) == UNION {[1..k -> S] : k \in 0..n}

\* str.startswith
StartsWith(s, p) == Len(p) <= Len(s) /\ SubSeq(s, 1, Len(p)) = p

\* str.endswith
EndsWith(s, p) == Len(p) <= Len(s) /\ SubSeq(s, Len(s) - Len(p) + 1, Len(s)) = p

\* str.replace(old, new): every non-overlapping occurrence, left to right.
\* R[i] is the result for the part of s that starts at position i.
Replace(s, old, new) ==
    LET R[i \in 1..(Len(s) + 1)] ==
            IF i > Len(s) THEN <<>>
            ELSE IF StartsWith(SubSeq(s, i, Len(s)), old)
                 THEN new \o R[i + Len(old)]
                 ELSE <<s[i]>> \o R[i + 1]
    IN  R[1]

DotH == <<".", "h">>
DotCpp == <<".", "c", "p", "p">>
ColonColon == <<":", ":">>

\* ------------------------------------------------------------ the program
\* Source paths.  NoFile is a cursor location without a file.
NoFile == <<>>
MainCpp == <<"m", ".", "c", "p", "p">>
PlainHdr == <<"w", ".", "h">>
PlainImpl == <<"w", ".", "c", "p", "p">>
\* A header below a directory whose name contains ".h".
DottedHdr == <<"x", ".", "h", "g", "/", "w", ".", "h">>
DottedImpl == <<"x", ".", "h", "g", "/", "w", ".", "c", "p", "p">>
UsrHdr == <<"/", "u", "s", "r", "/", "x", ".", "h">>

Headers == {PlainHdr, DottedHdr}

\* The implementation unit that belongs to a header of the program.
ImplOf(h) == IF h = PlainHdr THEN PlainImpl ELSE DottedImpl

\* Cursors.  None is Python's None (an unbound reference, a failed lookup).
None == "None"
\* Declarations that can be the target of a call.
\*   A, B  MT_SAFE methods of class Foo, defined in m.cpp
\*   U     a method of Foo without MT_SAFE, defined in m.cpp
\*   K     the constructor of Foo, defined in m.cpp
\*   X     a free function std::x declared in /usr/x.h
\*   T     an MT_SAFE function template in m.cpp
\*   H     the declaration of Foo::w() in the header
\*   I     the definition of Foo::w() in the implementation unit
Decls == {"A", "B", "U", "K", "X", "T", "H", "I"}
\* Scopes: the translation unit, class Foo, namespace std and a linkage
\* block (extern "C++" { ... }) that can enclose the definition I.
Scopes == {"TU", "Foo", "std", "Blk"}
\* What a call expression can reference.
Targets == {"A", "B", "U", "K", "X", "T", "H", None}
\* Declarations whose body is an input.
Bodies == {"A", "B", "U", "K", "I"}

kind(n) ==
    CASE n = "TU" -> "TRANSLATION_UNIT"
      [] n = "Foo" -> "CLASS_DECL"
      [] n = "std" -> "NAMESPACE"
      [] n = "Blk" -> "UNEXPOSED_DECL"
      [] n \in {"A", "B", "U", "H", "I"} -> "CXX_METHOD"
      [] n = "K" -> "CONSTRUCTOR"
      [] n = "X" -> "FUNCTION_DECL"
      [] n = "T" -> "FUNCTION_TEMPLATE"

semantic_parent(n) ==
    CASE n \in {"A", "B", "U", "K", "H", "I"} -> "Foo"
      [] n = "X" -> "std"
      [] n \in {"T", "Foo", "std", "Blk"} -> "TU"
      [] n = "TU" -> None

spelling(n) ==
    CASE n = "Foo" -> <<"F">>
      [] n = "std" -> <<"s", "t", "d">>
      [] n = "Blk" -> <<>>
      [] n = "A" -> <<"a">>
      [] n = "B" -> <<"b">>
      [] n = "U" -> <<"u">>
      [] n = "K" -> <<"F">>
      [] n = "X" -> <<"x">>
      [] n = "T" -> <<"t">>
      [] n \in {"H", "I"} -> <<"w">>
      [] n = "TU" -> MainCpp

\* The display name of a function adds its parameter list.
displayname(n) ==
    IF n \in Decls THEN spelling(n) \o <<"(", ")">> ELSE spelling(n)

\* Cursor.get_usr(): the declaration and the definition of Foo::w() share it.
get_usr(n) == IF n \in {"H", "I"} THEN "usr:w" ELSE n

\* The inputs of one run: the program and the command line.
\*   calls    the targets of the call expressions of each body, in source order
\*   nested   whether the first call of a body is an argument of the second
\*   safe     the declarations among K, H, I that carry MT_SAFE
\*   hdr      the header that declares Foo::w()
\*   xloc     the file of std::x (NoFile: a builtin without a location)
\*   disk     the implementation units that exist on disk
\*   broken   the units whose parse yields an error or fatal diagnostic
\*   implTop  whether the definition I is a top-level declaration of its unit
\*   cmds     the files of the compile commands
\*   xfiles   excluded path prefixes (-p), xprefs excluded name prefixes (-x)
\*   runs     how many times main is called in the process
VARIABLE prog

\* The file of a declaration's extent and location.
file(n) ==
    CASE n \in {"A", "B", "U", "K", "T"} -> MainCpp
      [] n = "X" -> prog.xloc
      [] n = "H" -> prog.hdr
      [] n = "I" -> ImplOf(prog.hdr)

\* str(cursor.location.file)
str_file(f) == IF f = NoFile THEN <<"N", "o", "n", "e">> ELSE f

\* The annotation strings written on a declaration.
annotate_attrs(n) ==
    CASE n \in {"A", "B", "T"} -> <<"MT_SAFE">>
      [] n = "U" -> <<"MT_UNSAFE">>
      [] n \in {"K", "H", "I"} -> IF n \in prog.safe THEN <<"MT_SAFE">> ELSE <<>>
      [] n = "X" -> <<>>

\* The targets of the calls in a declaration's body; H is a declaration
\* without a body, the bodies of X and T each call U.
calls_of(n) ==
    IF n \in Bodies THEN prog.calls[n]
    ELSE IF n \in {"X", "T"} THEN <<"U">> ELSE <<>>

\* AST nodes below a declaration.
CallExpr(ref, kids) ==
    [kind |-> "CALL_EXPR", displayname |-> "", referenced |-> ref, children |-> kids]
AnnotateAttr(a) ==
    [kind |-> "ANNOTATE_ATTR", displayname |-> a, referenced |-> None, children |-> <<>>]
CompoundStmt(kids) ==
    [kind |-> "COMPOUND_STMT", displayname |-> "", referenced |-> None, children |-> kids]

\* The statements of a body: one call per statement, or with the first call
\* as an argument of the second, f2(f1()).
Statements(cs) ==
    IF prog.nested /\ Len(cs) >= 2
    THEN <<CallExpr(cs[2], <<CallExpr(cs[1], <<>>)>>)>>
         \o [i \in 1..(Len(cs) - 2) |-> CallExpr(cs[i + 2], <<>>)]
    ELSE [i \in 1..Len(cs) |-> CallExpr(cs[i], <<>>)]

\* Cursor.get_children() of a declaration: its attributes, then its body.
get_children(n) ==
    [i \in 1..Len(annotate_attrs(n)) |-> AnnotateAttr(annotate_attrs(n)[i])]
    \o (IF n = "H" THEN <<>> ELSE <<CompoundStmt(Statements(calls_of(n)))>>)

\* The cursor of a declaration as the AST walk sees it.
Cursor(n) ==
    [kind |-> kind(n), displayname |-> "", referenced |-> None,
     children |-> get_children(n)]

\* get_annotations(node)
get_annotations(n) ==
    LET cs == get_children(n)
        F[i \in 0..Len(cs)] ==
            IF i = 0 THEN <<>>
            ELSE IF cs[i].kind = "ANNOTATE_ATTR"
                 THEN Append(F[i - 1], cs[i].displayname) ELSE F[i - 1]
    IN  F[Len(cs)]

\* fully_qualified(c)
RECURSIVE fully_qualified(_)
fully_qualified(c) ==
    IF c = None THEN <<>>
    ELSE IF kind(c) = "TRANSLATION_UNIT" THEN <<>>
    ELSE LET res == fully_qualified(semantic_parent(c))
         IN  IF res # <<>> THEN res \o ColonColon \o spelling(c) ELSE spelling(c)

\* fully_qualified_pretty(c)
fully_qualified_pretty(c) ==
    IF c = None THEN <<>>
    ELSE IF kind(c) = "TRANSLATION_UNIT" THEN <<>>
    ELSE LET res == fully_qualified(semantic_parent(c))
         IN  IF res # <<>> THEN res \o ColonColon \o displayname(c) ELSE displayname(c)

\* A mutant of is_excluded: the loop over xprefs left out.
is_excluded_paths_only(node, xfiles, xprefs) ==
    IF file(node) = NoFile THEN FALSE
    ELSE \E i \in DOMAIN xfiles : StartsWith(file(node), xfiles[i])

\* is_excluded(node, xfiles, xprefs)
is_excluded(node, xfiles, xprefs) ==
    IF file(node) = NoFile THEN FALSE
    ELSE IF \E i \in DOMAIN xfiles : StartsWith(file(node), xfiles[i]) THEN TRUE
    ELSE \E i \in DOMAIN xprefs : StartsWith(fully_qualified_pretty(node), xprefs[i])

\* get_call_expr(node): the call expressions below node, children first.
RECURSIVE get_call_expr(_)
get_call_expr(node) ==
    LET kids == node.children
        F[i \in 0..Len(kids)] ==
            IF i = 0 THEN <<>> ELSE F[i - 1] \o get_call_expr(kids[i])
    IN  IF node.kind = "CALL_EXPR" THEN Append(F[Len(kids)], node) ELSE F[Len(kids)]

\* ------------------------------------------------------------ translation units
\* INDEX.parse(file, CLANG_ARGS): the parsed unit with its diagnostics.  Every
\* unit has a warning; a broken implementation unit has a fatal diagnostic, a
\* broken main unit an error.
parse(path) ==
    [spelling |-> path,
     diagnostics |-> IF path \in prog.broken
                     THEN (IF path = MainCpp THEN <<"Warning", "Error">> ELSE <<"Fatal">>)
                     ELSE <<"Warning">>]

\* The test of lines 113 and 253 over tu.diagnostics.
has_errors(tu) ==
    \E i \in DOMAIN tu.diagnostics : tu.diagnostics[i] = "Error" \/ tu.diagnostics[i] = "Fatal"

\* tu.cursor.get_children(): the top-level declarations of a unit.
tu_children(tu) ==
    IF tu.spelling = MainCpp THEN <<"std", "Foo", "T">>
    ELSE IF prog.implTop THEN <<"Foo", "I">> ELSE <<"Foo", "Blk">>

\* get_children() of the declarations below the top level of a unit.
decl_children(n, path) ==
    CASE n = "std" -> <<"X">>
      [] n = "Foo" -> IF path = MainCpp THEN <<"H", "A", "B", "U", "K">> ELSE <<"H">>
      [] n = "Blk" -> <<"I">>
      [] OTHER -> <<>>

\* The cursors show_info visits from a node, in the order it visits them: the
\* node, then each child's subtree.  The nodes below a function declaration
\* (attributes, statements) are never of kind CXX_METHOD and are left out.
RECURSIVE show_info_order(_, _)
show_info_order(n, path) ==
    LET kids == IF n = "TU" THEN tu_children(parse(path)) ELSE decl_children(n, path)
        F[i \in 0..Len(kids)] ==
            IF i = 0 THEN <<>> ELSE F[i - 1] \o show_info_order(kids[i], path)
    IN  <<n>> \o F[Len(kids)]

\* TRANSLATE_UNITS[path] = tu
store(units, path, tu) ==
    [q \in DOMAIN units \cup {path} |-> IF q = path THEN tu ELSE units[q]]

\* find_usr(file, usr, ...): the result, the unit cache after the call and the
\* files the call parsed.
find_usr(f, usr, units) ==
    LET file_cpp == Replace(str_file(f), DotH, DotCpp)
        cached == file_cpp \in DOMAIN units
        tu == IF cached THEN units[file_cpp] ELSE parse(file_cpp)
        kids == tu_children(tu)
        hits == {i \in DOMAIN kids : get_usr(kids[i]) = usr}
        first == CHOOSE i \in hits : \A j \in hits : i <= j
    IN  IF ~cached /\ has_errors(tu)
        THEN [ret |-> None, units |-> units, parsed |-> <<file_cpp>>]
        ELSE [ret |-> IF hits = {} THEN None ELSE kids[first],
              units |-> IF cached THEN units ELSE store(units, file_cpp, tu),
              parsed |-> IF cached THEN <<>> ELSE <<file_cpp>>]

\* os.path.exists
path_exists(path) == path \in prog.disk \cup {MainCpp}

\* ------------------------------------------------------------------- state
\* PRINTED, UNSAFE_CALLS, TRANSLATE_UNITS: the script's globals.
\* files_read, cmd_i, unsafe_i: main's list and the positions of its two loops.
\* walk_i: the position of show_info in the cursors of the current unit.
\* stack: the frames of find_funcs or print_funcs, each a node and the
\*        position of its loop over funcs.
\* pc: where main is.
\* output: what this call of main has rendered (nodes, separators, the count).
\* parses: the files this call of main has handed to INDEX.parse, in order.
\* started: PRINTED as it was when show_info called find_funcs, or when main
\*          called print_funcs.
\* verdict: the entry point of the last find_funcs call of show_info, PRINTED
\*          as it was at the call, and the value the call returned.
\* last: what the last loop iteration of find_funcs or print_funcs did.
\* expanded: the nodes whose calls the current traversal extracted, in order.
\* run: the number of the current call of main.
\* first: how the first call of main ended, once a second one has begun.
VARIABLES PRINTED, UNSAFE_CALLS, TRANSLATE_UNITS, files_read, cmd_i, unsafe_i,
          walk_i, stack, pc, output, parses, started, verdict, last, expanded,
          run, first

vars == <<prog, run, first, PRINTED, UNSAFE_CALLS, TRANSLATE_UNITS, files_read, cmd_i, unsafe_i,
          walk_i, stack, pc, output, parses, started, verdict, last, expanded>>

\* A mutant of MT_SAFE_KINDS: no kind is exempt.
MT_SAFE_KINDS_none == {}

\* MT_SAFE_KINDS (line 25)
MT_SAFE_KINDS == {"CONSTRUCTOR"}

\* A mutant of expandable: only a declaration that passes the test of line 144
\* is walked, in print_funcs as in find_funcs.
expandable_if_safe(call) ==
    /\ kind(call) \in {"CXX_METHOD", "CONSTRUCTOR", "FUNCTION_DECL"}
    /\ ("MT_SAFE" \in Range(get_annotations(call)) \/ kind(call) = "CONSTRUCTOR")

\* The kinds find_funcs and print_funcs recurse into (lines 146 and 170).
expandable(call) ==
    kind(call) = "CXX_METHOD" \/ kind(call) = "CONSTRUCTOR" \/ kind(call) = "FUNCTION_DECL"

\* A mutant of mt_safe: `and` where the script has `or`.
mt_safe_both(call) ==
    "MT_SAFE" \in Range(get_annotations(call)) /\ kind(call) \in MT_SAFE_KINDS

\* The negation of the test of line 144; also the colour test of line 41.
mt_safe(call) ==
    "MT_SAFE" \in Range(get_annotations(call)) \/ kind(call) \in MT_SAFE_KINDS

\* `not c.referenced` (lines 125 and 153)
unbound(c) == c.referenced = None

\* A mutant of already_printed: the test of lines 132 and 160 left out.
already_printed_never(call, printed) == FALSE

\* `fully_qualified_pretty(call) in PRINTED` (lines 132 and 160)
already_printed(call, printed) == fully_qualified_pretty(call) \in Range(printed)

\* Lines 134 to 138 (162 to 166): the header to implementation upgrade.
upgrade(ref, units) ==
    IF EndsWith(str_file(file(ref)), DotH)
       /\ path_exists(Replace(str_file(file(ref)), DotH, DotCpp))
    THEN LET r == find_usr(file(ref), get_usr(ref), units)
         IN  [call |-> IF r.ret # None THEN r.ret ELSE ref,
              units |-> r.units, parsed |-> r.parsed]
    ELSE [call |-> ref, units |-> units, parsed |-> <<>>]

\* A mutant of remember: the name is never recorded.
remember_never(call, printed) == printed

\* Lines 141 and 142: record the name once.
remember(call, printed) ==
    IF fully_qualified_pretty(call) \notin Range(printed)
    THEN Append(printed, fully_qualified_pretty(call)) ELSE printed

\* print_node(node, level): the line printed, if any.
print_node_line(node, level, printed) ==
    IF fully_qualified_pretty(node) \notin Range(printed)
    THEN <<[what |-> "node", node |-> node, name |-> fully_qualified_pretty(node),
            level |-> level, color |-> IF mt_safe(node) THEN "green" ELSE "red"]>>
    ELSE <<>>

\* print_node(node, level): PRINTED afterwards.
print_node(node, level, printed) == remember(node, printed)

\* The frame on top of the stack, its call expressions and the current one.
Top == stack[Len(stack)]
funcs == get_call_expr(Cursor(Top.node))
InLoop == stack # <<>> /\ Top.i <= Len(funcs)
cur == funcs[Top.i]

\* Why lines 125 to 133 (153 to 161) skip the current call expression, or "no".
skip_reason(c, printed) ==
    IF unbound(c) THEN "unbound"
    ELSE IF is_excluded(c.referenced, prog.xfiles, prog.xprefs) THEN "excluded"
    ELSE IF already_printed(c.referenced, printed) THEN "printed"
    ELSE "no"

\* A mutant of Advance: `break` where the script has `continue`.
Advance_break == [stack EXCEPT ![Len(stack)].i = Len(funcs) + 1]

\* `continue`, and the end of the loop body: the next call expression.
Advance == [stack EXCEPT ![Len(stack)].i = @ + 1]

NoLast == [fn |-> "", node |-> None, ref |-> None, call |-> None, did |-> ""]

\* -------------------------------------------------------------------- inputs
UsrPrefix == <<"/", "u", "s", "r">>
StdPrefix == <<"s", "t", "d">>

\* A run with the default command line (excluded_paths = ['/usr'], line 194),
\* one compile command and empty bodies.
Default ==
    [calls |-> [d \in Bodies |-> <<>>], nested |-> FALSE, safe |-> {"I"},
     hdr |-> PlainHdr, xloc |-> UsrHdr, disk |-> {PlainImpl}, broken |-> {},
     implTop |-> TRUE, cmds |-> <<MainCpp>>, xfiles |-> <<UsrPrefix>>, xprefs |-> <<>>,
     runs |-> 1]

WithCalls(p, a, b, u, k, i) ==
    [p EXCEPT !.calls = [d \in Bodies |->
        CASE d = "A" -> a [] d = "B" -> b [] d = "U" -> u [] d = "K" -> k [] d = "I" -> i]]

\* Call graphs: every body of A up to MaxCalls calls, with small bodies elsewhere.
GraphPrograms ==
    {WithCalls(Default, a, b, u, k, <<>>) :
        a \in SeqsUpTo(Targets, MaxCalls),
        b \in {<<>>, <<"A">>, <<"U">>, <<"H">>},
        u \in {<<>>, <<"B">>},
        k \in {<<>>, <<"U">>}}

\* The same bodies of A with the first call as an argument of the second.
NestedPrograms ==
    {WithCalls([Default EXCEPT !.nested = TRUE], a, <<"U">>, <<>>, <<>>, <<>>) :
        a \in SeqsUpTo(Targets, MaxCalls)}

\* Resolution: where the header is, whether its implementation unit exists,
\* parses, has the definition at the top level, and who is annotated.
ResolverPrograms ==
    {WithCalls([Default EXCEPT !.hdr = h, !.disk = IF onDisk THEN {ImplOf(h)} ELSE {},
                               !.broken = IF bad THEN {ImplOf(h)} ELSE {},
                               !.implTop = top, !.safe = sf],
               a, <<>>, <<>>, <<>>, i) :
        h \in Headers, onDisk \in BOOLEAN, bad \in BOOLEAN, top \in BOOLEAN,
        sf \in SUBSET {"H", "I", "K"},
        a \in {<<"H">>, <<"H", "U">>, <<"B", "H">>, <<"K", "H">>},
        i \in {<<>>, <<"U">>, <<"H">>}}

\* The driver: the compile commands and the units that do not parse.
DriverPrograms ==
    {WithCalls([Default EXCEPT !.cmds = c, !.broken = bad], a, b, <<>>, <<>>, i) :
        c \in SeqsUpTo({MainCpp, PlainImpl}, MaxCmds) \ {<<>>},
        bad \in SUBSET {MainCpp, PlainImpl},
        a \in {<<"U">>, <<"H">>, <<"B", "U">>},
        b \in {<<>>, <<"U">>},
        i \in {<<>>, <<"U">>}}

\* The command line: -p and -x, and a callee std::x with or without a location.
ExclusionPrograms ==
    {WithCalls([Default EXCEPT !.xfiles = xf, !.xprefs = xp, !.xloc = loc],
               a, b, <<>>, <<>>, <<>>) :
        xf \in {<<>>, <<UsrPrefix>>}, xp \in {<<>>, <<StdPrefix>>, <<ColonColon, StdPrefix>>},
        loc \in {UsrHdr, NoFile, MainCpp},
        a \in {<<"X">>, <<"X", "B">>, <<"B", "X">>, <<"X", "U">>},
        b \in {<<>>, <<"X">>}}

\* Call graphs with cycles: self calls, mutual recursion, calls back to the
\* entry point, through methods, the constructor and the header upgrade.
CyclePrograms ==
    {WithCalls(Default, a, b, <<"A">>, k, <<"H">>) :
        a \in SeqsUpTo({"A", "B", "U", "K", "H"}, MaxCalls),
        b \in {<<"A">>, <<"B">>},
        k \in {<<"A">>, <<"K">>}}

\* A few runs of every other sort, so that every step of the script occurs.
OtherPrograms ==
    {WithCalls([Default EXCEPT !.cmds = c, !.broken = bad], a, <<"U">>, <<>>, <<>>, <<>>) :
        c \in {<<MainCpp>>, <<MainCpp, MainCpp>>},
        bad \in {{}, {MainCpp}},
        a \in {<<"T", "U">>, <<"U", "T">>, <<"X", None>>}}

\* main called twice: the globals the first call leaves meet the second call.
RerunPrograms ==
    {WithCalls([Default EXCEPT !.runs = 2, !.cmds = c, !.broken = bad, !.safe = sf],
               a, b, <<>>, <<>>, <<>>) :
        c \in {<<MainCpp>>, <<MainCpp, PlainImpl>>},
        bad \in {{}, {PlainImpl}},
        sf \in {{}, {"I"}},
        a \in {<<>>, <<"U">>, <<"B", "U">>, <<"H">>},
        b \in {<<>>, <<"U">>, <<"H">>}}

TerminationPrograms ==
    CyclePrograms \cup OtherPrograms
    \cup {p \in RerunPrograms : p.safe = {} /\ p.calls["B"] = <<"H">>}

Programs ==
    GraphPrograms \cup NestedPrograms \cup ResolverPrograms \cup DriverPrograms
    \cup ExclusionPrograms \cup RerunPrograms

\* ---------------------------------------------------------------------- Init
NoFirst == [pc |-> "", UNSAFE_CALLS |-> <<>>, output |-> <<>>]

\* The globals as lines 18 to 26 set them, main at its first loop (line 240).
InitWith(P) ==
    /\ prog \in P
    /\ PRINTED = <<>>
    /\ UNSAFE_CALLS = <<>>
    /\ TRANSLATE_UNITS = <<>>
    /\ files_read = <<>>
    /\ cmd_i = 1
    /\ unsafe_i = 1
    /\ walk_i = 1
    /\ stack = <<>>
    /\ pc = "read"
    /\ output = <<>>
    /\ parses = <<>>
    /\ started = <<>>
    /\ verdict = [node |-> None, start |-> <<>>, value |-> TRUE]
    /\ last = NoLast
    /\ expanded = <<>>
    /\ run = 1
    /\ first = NoFirst

Init == InitWith(Programs)

\* ------------------------------------------------------------------- main
cmd_file == prog.cmds[cmd_i]

\* Lines 240 to 247: a file that was read before is parsed and stored again,
\* then skipped.
main_parse_again ==
    /\ pc = "read" /\ cmd_i <= Len(prog.cmds)
    /\ cmd_file \in Range(files_read)
    /\ TRANSLATE_UNITS' = store(TRANSLATE_UNITS, cmd_file, parse(cmd_file))
    /\ parses' = Append(parses, cmd_file)
    /\ cmd_i' = cmd_i + 1
    /\ UNCHANGED <<prog, run, first, PRINTED, UNSAFE_CALLS, files_read, unsafe_i, walk_i, stack, pc,
                   output, started, verdict, last, expanded>>

\* Lines 240 to 255: a unit with an error or fatal diagnostic ends main.
main_parse_error ==
    /\ pc = "read" /\ cmd_i <= Len(prog.cmds)
    /\ cmd_file \notin Range(files_read)
    /\ has_errors(parse(cmd_file))
    /\ TRANSLATE_UNITS' = store(TRANSLATE_UNITS, cmd_file, parse(cmd_file))
    /\ parses' = Append(parses, cmd_file)
    /\ files_read' = Append(files_read, cmd_file)
    /\ pc' = "returned"
    /\ UNCHANGED <<prog, run, first, PRINTED, UNSAFE_CALLS, cmd_i, unsafe_i, walk_i, stack,
                   output, started, verdict, last, expanded>>

\* Lines 240 to 256: a unit without such a diagnostic is handed to show_info.
main_parse_ok ==
    /\ pc = "read" /\ cmd_i <= Len(prog.cmds)
    /\ cmd_file \notin Range(files_read)
    /\ ~has_errors(parse(cmd_file))
    /\ TRANSLATE_UNITS' = store(TRANSLATE_UNITS, cmd_file, parse(cmd_file))
    /\ parses' = Append(parses, cmd_file)
    /\ files_read' = Append(files_read, cmd_file)
    /\ walk_i' = 1
    /\ pc' = "show_info"
    /\ UNCHANGED <<prog, run, first, PRINTED, UNSAFE_CALLS, cmd_i, unsafe_i, stack,
                   output, started, verdict, last, expanded>>

\* ---------------------------------------------------------------- show_info
walk == show_info_order("TU", cmd_file)
walk_node == walk[walk_i]

\* Lines 174 and 175: a method that carries MT_SAFE is an entry point.
is_entry(n) == kind(n) = "CXX_METHOD" /\ "MT_SAFE" \in Range(get_annotations(n))

\* Lines 174 to 180 for a cursor that is no entry point.
show_info_skip ==
    /\ pc = "show_info" /\ walk_i <= Len(walk)
    /\ \E node \in {walk_node} : ~is_entry(node)
    /\ walk_i' = walk_i + 1
    /\ UNCHANGED <<prog, run, first, PRINTED, UNSAFE_CALLS, TRANSLATE_UNITS, files_read, cmd_i,
                   unsafe_i, stack, pc, output, parses, started, verdict, last, expanded>>

\* Line 176: show_info calls find_funcs on an entry point.
show_info_check ==
    /\ pc = "show_info" /\ walk_i <= Len(walk)
    /\ \E node \in {walk_node} :
        /\ is_entry(node)
        /\ stack' = <<[node |-> node, i |-> 1]>>
        /\ expanded' = <<node>>
    /\ started' = PRINTED
    /\ last' = NoLast
    /\ pc' = "find_funcs"
    /\ UNCHANGED <<prog, run, first, PRINTED, UNSAFE_CALLS, TRANSLATE_UNITS, files_read, cmd_i,
                   unsafe_i, walk_i, output, parses, verdict>>

\* show_info has visited every cursor of the unit: main's loop goes on.
show_info_end ==
    /\ pc = "show_info" /\ walk_i > Len(walk)
    /\ cmd_i' = cmd_i + 1
    /\ pc' = "read"
    /\ UNCHANGED <<prog, run, first, PRINTED, UNSAFE_CALLS, TRANSLATE_UNITS, files_read, unsafe_i,
                   walk_i, stack, output, parses, started, verdict, last, expanded>>

\* --------------------------------------------------------------- find_funcs
\* What the loop body did with call expression c of the top frame.
Did(fn, c, call, what) ==
    [fn |-> fn, node |-> Top.node, ref |-> c.referenced, call |-> call, did |-> what]

\* show_info takes the value find_funcs returned (lines 176 to 178) and goes
\* on with the next cursor.  Every frame below the top one is at
\* `return find_funcs(...)` (line 147), so the value passes through all of them.
find_funcs_returns(value) ==
    /\ verdict' = [node |-> stack[1].node, start |-> started, value |-> value]
    /\ UNSAFE_CALLS' = IF value THEN UNSAFE_CALLS ELSE Append(UNSAFE_CALLS, stack[1].node)
    /\ stack' = <<>>
    /\ walk_i' = walk_i + 1
    /\ pc' = "show_info"

\* Lines 134 to 142: the lookup r of the callee, which is recorded in PRINTED.
find_funcs_records(r) ==
    /\ PRINTED' = remember(r.call, PRINTED)
    /\ TRANSLATE_UNITS' = r.units
    /\ parses' = parses \o r.parsed

\* Lines 125 to 133: an unbound, excluded or already recorded reference.
find_funcs_skip ==
    /\ pc = "find_funcs" /\ InLoop
    /\ \E c \in {cur} :
        /\ skip_reason(c, PRINTED) # "no"
        /\ last' = Did("find_funcs", c, None, skip_reason(c, PRINTED))
    /\ stack' = Advance
    /\ UNCHANGED <<prog, run, first, PRINTED, UNSAFE_CALLS, TRANSLATE_UNITS, files_read, cmd_i,
                   unsafe_i, walk_i, pc, output, parses, started, verdict, expanded>>

\* Lines 134 to 145: the callee is neither MT_SAFE nor a constructor.
find_funcs_unsafe ==
    /\ pc = "find_funcs" /\ InLoop
    /\ \E c \in {cur} :
        /\ skip_reason(c, PRINTED) = "no"
        /\ \E r \in {upgrade(c.referenced, TRANSLATE_UNITS)} :
            /\ ~mt_safe(r.call)
            /\ find_funcs_records(r)
            /\ last' = Did("find_funcs", c, r.call, "return False")
    /\ find_funcs_returns(FALSE)
    /\ UNCHANGED <<prog, run, first, files_read, cmd_i, unsafe_i, output, started, expanded>>

\* Lines 134 to 147: the callee passes and has a body to walk.
find_funcs_recurse ==
    /\ pc = "find_funcs" /\ InLoop
    /\ \E c \in {cur} :
        /\ skip_reason(c, PRINTED) = "no"
        /\ \E r \in {upgrade(c.referenced, TRANSLATE_UNITS)} :
            /\ mt_safe(r.call) /\ expandable(r.call)
            /\ find_funcs_records(r)
            /\ last' = Did("find_funcs", c, r.call, "recurse")
            /\ IF Len(stack) >= RecursionLimit
               THEN pc' = "RecursionError" /\ UNCHANGED <<stack, expanded>>
               ELSE /\ stack' = Append(stack, [node |-> r.call, i |-> 1])
                    /\ expanded' = Append(expanded, r.call)
                    /\ pc' = pc
    /\ UNCHANGED <<prog, run, first, UNSAFE_CALLS, files_read, cmd_i, unsafe_i, walk_i,
                   output, started, verdict>>

\* Lines 134 to 146: the callee passes and is of no kind that is walked.
find_funcs_leaf ==
    /\ pc = "find_funcs" /\ InLoop
    /\ \E c \in {cur} :
        /\ skip_reason(c, PRINTED) = "no"
        /\ \E r \in {upgrade(c.referenced, TRANSLATE_UNITS)} :
            /\ mt_safe(r.call) /\ ~expandable(r.call)
            /\ find_funcs_records(r)
            /\ last' = Did("find_funcs", c, r.call, "next")
    /\ stack' = Advance
    /\ UNCHANGED <<prog, run, first, UNSAFE_CALLS, files_read, cmd_i, unsafe_i, walk_i, pc,
                   output, started, verdict, expanded>>

\* Line 148: the loop is over.
find_funcs_true ==
    /\ pc = "find_funcs" /\ ~InLoop
    /\ find_funcs_returns(TRUE)
    /\ UNCHANGED <<prog, run, first, PRINTED, TRANSLATE_UNITS, files_read, cmd_i, unsafe_i,
                   output, parses, started, last, expanded>>

\* ---------------------------------------------------------- main, second loop
\* The first loop of main is over (line 258).
main_read_end ==
    /\ pc = "read" /\ cmd_i > Len(prog.cmds)
    /\ pc' = "report"
    /\ unsafe_i' = 1
    /\ UNCHANGED <<prog, run, first, PRINTED, UNSAFE_CALLS, TRANSLATE_UNITS, files_read, cmd_i,
                   walk_i, stack, output, parses, started, verdict, last, expanded>>

\* Lines 259 to 262: clear PRINTED, render the entry, call print_funcs.
main_explain ==
    /\ pc = "report" /\ unsafe_i <= Len(UNSAFE_CALLS)
    /\ \E n \in {UNSAFE_CALLS[unsafe_i]} :
        /\ output' = output \o print_node_line(n, 0, <<>>)
        /\ PRINTED' = print_node(n, 0, <<>>)
        /\ started' = print_node(n, 0, <<>>)
        /\ stack' = <<[node |-> n, i |-> 1]>>
        /\ expanded' = <<n>>
    /\ last' = NoLast
    /\ pc' = "print_funcs"
    /\ UNCHANGED <<prog, run, first, UNSAFE_CALLS, TRANSLATE_UNITS, files_read, cmd_i, unsafe_i,
                   walk_i, parses, verdict>>

\* Line 264: the final count.
main_count ==
    /\ pc = "report" /\ unsafe_i > Len(UNSAFE_CALLS)
    /\ output' = Append(output, [what |-> "count", node |-> None, name |-> <<>>,
                                 level |-> Len(UNSAFE_CALLS), color |-> ""])
    /\ pc' = "done"
    /\ UNCHANGED <<prog, run, first, PRINTED, UNSAFE_CALLS, TRANSLATE_UNITS, files_read, cmd_i,
                   unsafe_i, walk_i, stack, parses, started, verdict, last, expanded>>

\* main is called once more in the same interpreter: the globals of lines 18
\* to 26 keep their values, files_read is a new list (line 239) and the first
\* loop starts over.
main_again ==
    /\ pc \in {"done", "returned"} /\ run < prog.runs
    /\ run' = run + 1
    /\ first' = [pc |-> pc, UNSAFE_CALLS |-> UNSAFE_CALLS, output |-> output]
    /\ files_read' = <<>>
    /\ cmd_i' = 1
    /\ output' = <<>>
    /\ parses' = <<>>
    /\ pc' = "read"
    /\ UNCHANGED <<prog, PRINTED, UNSAFE_CALLS, TRANSLATE_UNITS, unsafe_i, walk_i,
                   stack, started, verdict, last, expanded>>

\* -------------------------------------------------------------- print_funcs
\* Lines 162 to 169: the lookup r of the callee, which print_node renders.
print_funcs_renders(r) ==
    /\ output' = output \o print_node_line(r.call, Len(stack), PRINTED)
    /\ PRINTED' = print_node(r.call, Len(stack), PRINTED)
    /\ TRANSLATE_UNITS' = r.units
    /\ parses' = parses \o r.parsed

\* Lines 153 to 161.
print_funcs_skip ==
    /\ pc = "print_funcs" /\ InLoop
    /\ \E c \in {cur} :
        /\ skip_reason(c, PRINTED) # "no"
        /\ last' = Did("print_funcs", c, None, skip_reason(c, PRINTED))
    /\ stack' = Advance
    /\ UNCHANGED <<prog, run, first, PRINTED, UNSAFE_CALLS, TRANSLATE_UNITS, files_read, cmd_i,
                   unsafe_i, walk_i, pc, output, parses, started, verdict, expanded>>

\* Lines 162 to 171: render the callee and walk its body.
print_funcs_recurse ==
    /\ pc = "print_funcs" /\ InLoop
    /\ \E c \in {cur} :
        /\ skip_reason(c, PRINTED) = "no"
        /\ \E r \in {upgrade(c.referenced, TRANSLATE_UNITS)} :
            /\ expandable(r.call)
            /\ print_funcs_renders(r)
            /\ last' = Did("print_funcs", c, r.call, "recurse")
            /\ IF Len(stack) >= RecursionLimit
               THEN pc' = "RecursionError" /\ UNCHANGED <<stack, expanded>>
               ELSE /\ stack' = Append(stack, [node |-> r.call, i |-> 1])
                    /\ expanded' = Append(expanded, r.call)
                    /\ pc' = pc
    /\ UNCHANGED <<prog, run, first, UNSAFE_CALLS, files_read, cmd_i, unsafe_i, walk_i,
                   started, verdict>>

\* Lines 162 to 170: render a callee of a kind that is not walked.
print_funcs_leaf ==
    /\ pc = "print_funcs" /\ InLoop
    /\ \E c \in {cur} :
        /\ skip_reason(c, PRINTED) = "no"
        /\ \E r \in {upgrade(c.referenced, TRANSLATE_UNITS)} :
            /\ ~expandable(r.call)
            /\ print_funcs_renders(r)
            /\ last' = Did("print_funcs", c, r.call, "next")
    /\ stack' = Advance
    /\ UNCHANGED <<prog, run, first, UNSAFE_CALLS, files_read, cmd_i, unsafe_i, walk_i, pc,
                   started, verdict, expanded>>

\* The loop of a nested print_funcs is over: its caller's loop goes on.
print_funcs_return ==
    /\ pc = "print_funcs" /\ ~InLoop /\ Len(stack) > 1
    /\ stack' = [SubSeq(stack, 1, Len(stack) - 1) EXCEPT ![Len(stack) - 1].i = @ + 1]
    /\ UNCHANGED <<prog, run, first, PRINTED, UNSAFE_CALLS, TRANSLATE_UNITS, files_read, cmd_i,
                   unsafe_i, walk_i, pc, output, parses, started, verdict, last, expanded>>

\* The loop of the print_funcs that main called is over (line 263).
print_funcs_end ==
    /\ pc = "print_funcs" /\ ~InLoop /\ Len(stack) = 1
    /\ stack' = <<>>
    /\ output' = Append(output, [what |-> "--------------", node |-> None, name |-> <<>>,
                                 level |-> 0, color |-> ""])
    /\ unsafe_i' = unsafe_i + 1
    /\ pc' = "report"
    /\ UNCHANGED <<prog, run, first, PRINTED, UNSAFE_CALLS, TRANSLATE_UNITS, files_read, cmd_i,
                   walk_i, parses, started, verdict, last, expanded>>

\* ---------------------------------------------------------------------- Next
Next ==
    \/ main_parse_again
    \/ main_parse_error
    \/ main_parse_ok
    \/ show_info_skip
    \/ show_info_check
    \/ show_info_end
    \/ find_funcs_skip
    \/ find_funcs_unsafe
    \/ find_funcs_recurse
    \/ find_funcs_leaf
    \/ find_funcs_true
    \/ main_read_end
    \/ main_explain
    \/ main_count
    \/ print_funcs_skip
    \/ print_funcs_recurse
    \/ print_funcs_leaf
    \/ print_funcs_return
    \/ print_funcs_end
    \/ main_again

Spec == Init /\ [][Next]_vars

\* The script is one thread that runs until main returns: no step that can be
\* taken is put off for ever.
FairSpec == InitWith(TerminationPrograms) /\ [][Next]_vars /\ WF_vars(Next)

\* ================================================================== claims
\* The call graph the claims speak of.  A call that is bound and not excluded
\* reaches every declaration of the symbol it references: the declaration in
\* the header and the definition in the implementation unit.
refs_of(d) == {c.referenced : c \in Range(get_call_expr(Cursor(d)))}

live_refs(d) ==
    {r \in refs_of(d) : r # None /\ ~is_excluded(r, prog.xfiles, prog.xprefs)}

forms(r) == {d \in Decls : get_usr(d) = get_usr(r)}

callees(d) == UNION {forms(r) : r \in live_refs(d)}

annotated(d) == "MT_SAFE" \in Range(get_annotations(d))

\* Neither annotated MT_SAFE nor a constructor.
unsafe(d) == ~annotated(d) /\ kind(d) # "CONSTRUCTOR"

\* The declarations reachable from d by one or more calls.
RECURSIVE reach_more(_)
reach_more(R) ==
    LET N == R \cup UNION {callees(x) : x \in R}
    IN  IF N = R THEN R ELSE reach_more(N)

reachable(d) == reach_more(callees(d))

\* The entry points of the units named by the compile commands.
entry_points ==
    {n \in UNION {Range(show_info_order("TU", prog.cmds[i])) : i \in DOMAIN prog.cmds} :
        is_entry(n)}

\* C1: an entry point checked with an empty visited set whose body has a
\* bound, non-excluded call to a declaration that is neither MT_SAFE nor a
\* constructor gets the verdict False, whatever else it calls.
C1_UnsafeCalleeFails ==
    (verdict.node # None /\ verdict.start = <<>>
       /\ \E r \in live_refs(verdict.node) : \A d \in forms(r) : unsafe(d))
    => verdict.value = FALSE

\* C2: when main has finished, UNSAFE_CALLS holds every entry point from which
\* a declaration that is neither MT_SAFE nor a constructor is reachable through
\* bound, non-excluded calls.
C2_AllViolationsListed ==
    pc = "done" =>
        \A e \in entry_points :
            (\E d \in reachable(e) : \A f \in forms(d) : unsafe(f))
            => e \in Range(UNSAFE_CALLS)

\* C3: when show_info calls find_funcs, PRINTED holds no name of an earlier
\* check; when main calls print_funcs, PRINTED holds only the entry point it
\* has just rendered.
C3_FreshVisitedSet ==
    /\ pc = "find_funcs" => started = <<>>
    /\ pc = "print_funcs" => started = <<fully_qualified_pretty(UNSAFE_CALLS[unsafe_i])>>

\* C4: an entry point from which every reachable declaration carries MT_SAFE
\* gets the verdict True, whatever PRINTED held when the check began.
C4_AllSafeReturnsTrue ==
    (verdict.node # None /\ \A d \in reachable(verdict.node) : annotated(d))
    => verdict.value = TRUE

\* C4 witness: B is checked after A left names in PRINTED, B and A call each
\* other, everything reachable from B is MT_SAFE, and the verdict is True.
C4_Witness ==
    /\ verdict.node = "B" /\ verdict.start # <<>> /\ verdict.value = TRUE
    /\ "A" \in callees("B") /\ "B" \in callees("A")
    /\ \A d \in reachable("B") : annotated(d)

\* C5: every find_funcs call of show_info returns and every print_funcs call of
\* main returns, cycles in the call graph included.
C5_TraversalsTerminate ==
    /\ (pc = "find_funcs") ~> (pc = "show_info")
    /\ (pc = "print_funcs") ~> (pc = "report")

\* C5 witness: print_funcs, two or more frames deep, meets a call back to the
\* entry point it started from and skips it.
C5_Witness ==
    /\ pc = "print_funcs" /\ Len(stack) >= 2
    /\ last.fn = "print_funcs" /\ last.did = "printed"
    /\ last.ref = stack[1].node

\* The reference matches a prefix of the exclusion policy.
matches_exclusion(n) ==
    \/ \E i \in DOMAIN prog.xfiles : StartsWith(file(n), prog.xfiles[i])
    \/ \E i \in DOMAIN prog.xprefs : StartsWith(fully_qualified_pretty(n), prog.xprefs[i])

\* The step leaves the current call expression alone: nothing is recorded,
\* rendered, expanded, parsed or returned, and the loop goes on with the next
\* call expression of the same body.
StepSkipsCall ==
    /\ PRINTED' = PRINTED /\ output' = output /\ expanded' = expanded
    /\ UNSAFE_CALLS' = UNSAFE_CALLS /\ verdict' = verdict /\ parses' = parses
    /\ pc' = pc
    /\ stack' = [stack EXCEPT ![Len(stack)].i = Top.i + 1]

AtCall == pc \in {"find_funcs", "print_funcs"} /\ InLoop

\* C6 as stated: a call whose target matches an excluded path prefix or an
\* excluded name prefix is skipped by find_funcs and by print_funcs.
C6_MatchingCallSkipped ==
    [][(AtCall /\ cur.referenced # None /\ matches_exclusion(cur.referenced))
       => StepSkipsCall]_vars

\* C6 amended: a call whose target has a source file and matches an excluded
\* path prefix or an excluded name prefix is skipped by find_funcs and by
\* print_funcs: no False, no record, no rendering, no expansion.
C6_LocatedMatchingCallSkipped ==
    [][(AtCall /\ cur.referenced # None /\ file(cur.referenced) # NoFile
          /\ matches_exclusion(cur.referenced))
       => StepSkipsCall]_vars

\* C6 witness: print_funcs has skipped a call to the unannotated std::x, which
\* is excluded by its name prefix alone; find_funcs skipped it before.
C6_Witness ==
    /\ last.fn = "print_funcs" /\ last.did = "excluded" /\ last.ref = "X"
    /\ unsafe("X") /\ prog.xfiles = <<>>
    /\ "X" \in refs_of(UNSAFE_CALLS[unsafe_i])

\* The implementation unit with the stem of a header.
same_stem_cpp(h) == SubSeq(h, 1, Len(h) - Len(DotH)) \o DotCpp

\* The top-level declarations of a unit with the symbol identifier of n.
definitions_in(path, n) ==
    {d \in Range(tu_children(parse(path))) : get_usr(d) = get_usr(n)}

\* C7: a call to a declaration in a header whose same-stem implementation unit
\* exists, parses without error and has a top-level declaration with the same
\* symbol identifier is decided on that declaration.
C7_ImplementationUsed ==
    (last.call # None /\ EndsWith(file(last.ref), DotH)
       /\ same_stem_cpp(file(last.ref)) \in prog.disk
       /\ ~has_errors(parse(same_stem_cpp(file(last.ref))))
       /\ definitions_in(same_stem_cpp(file(last.ref)), last.ref) # {})
    => last.call \in definitions_in(same_stem_cpp(file(last.ref)), last.ref)

\* The lookup of the implementation unit of n is made and its parse fails.
lookup_fails(n) ==
    /\ EndsWith(str_file(file(n)), DotH)
    /\ path_exists(Replace(str_file(file(n)), DotH, DotCpp))
    /\ has_errors(parse(Replace(str_file(file(n)), DotH, DotCpp)))

\* C8: a call whose lookup needs an implementation unit that parses with an
\* error is skipped by find_funcs and never makes it return False.
C8_FailedLookupSkipped ==
    [][(pc = "find_funcs" /\ InLoop /\ cur.referenced # None
          /\ ~is_excluded(cur.referenced, prog.xfiles, prog.xprefs)
          /\ ~already_printed(cur.referenced, PRINTED)
          /\ lookup_fails(cur.referenced))
       => (pc' = "find_funcs" /\ UNSAFE_CALLS' = UNSAFE_CALLS /\ PRINTED' = PRINTED)]_vars

\* C9: a call expression without a referenced declaration is skipped by
\* find_funcs and by print_funcs, and the rest of the body is still walked.
C9_UnboundCallSkipped ==
    [][(AtCall /\ cur.referenced = None) => StepSkipsCall]_vars

\* C9 witness: the first call of A is unbound, the second is to an unsafe
\* declaration, and the check of A went on to it and returned False.
C9_Witness ==
    /\ verdict.node = "A" /\ verdict.value = FALSE
    /\ Len(prog.calls["A"]) = 2 /\ prog.calls["A"][1] = None
    /\ last.fn = "find_funcs" /\ last.node = "A" /\ last.ref = prog.calls["A"][2]

\* C10: find_funcs never returns False at a call that resolves to a
\* constructor, annotated or not.
C10_ConstructorPasses ==
    (last.fn = "find_funcs" /\ last.did = "return False")
    => kind(last.call) # "CONSTRUCTOR"

\* C10 witness: find_funcs passes a call to the constructor K, which carries
\* no MT_SAFE, and walks its body.
C10_Witness ==
    /\ last.fn = "find_funcs" /\ last.did = "recurse" /\ last.call = "K"
    /\ ~annotated("K")

\* The names an output renders.
rendered(out) == {out[i].name : i \in {j \in DOMAIN out : out[j].what = "node"}}

\* C11: when a second call of main in the same process has ended on the same
\* program, the violations list is the list the first call ended with, and the
\* explanations render the same names.
C11_RerunSameViolations ==
    (run = 2 /\ pc \in {"done", "returned"})
    => /\ UNSAFE_CALLS = first.UNSAFE_CALLS
       /\ rendered(output) = rendered(first.output)

\* The kinds of declaration that have a body of calls to walk.
has_body_kind(d) == kind(d) \in {"CXX_METHOD", "CONSTRUCTOR", "FUNCTION_DECL"}

\* print_funcs is at work, or has just returned to main.
Explaining == pc = "print_funcs" \/ (pc = "report" /\ unsafe_i > 1)

\* The lines of the current explanation: what was rendered after the separator
\* of the explanation before it, without the separator that ends it.
explanation ==
    LET n == IF pc = "print_funcs" THEN Len(output) ELSE Len(output) - 1
        seps == {i \in 1..n : output[i].what = "--------------"}
        p == IF seps = {} THEN 0 ELSE CHOOSE i \in seps : \A j \in seps : j <= i
    IN  SubSeq(output, p + 1, n)

\* C12 as stated: print_funcs never walks the calls of a declaration that is
\* neither MT_SAFE nor a constructor.
C12_UnsafeNeverExpanded ==
    (last.fn = "print_funcs" /\ last.call # None /\ unsafe(last.call))
    => last.did # "recurse"

\* C12 amended: print_funcs renders a declaration that is neither MT_SAFE nor a
\* constructor in red and walks its calls exactly when it is a method or a free
\* function; a declaration of another kind is rendered and not walked.
C12_UnsafeRenderedAndExpanded ==
    (Explaining /\ last.fn = "print_funcs" /\ last.call # None /\ unsafe(last.call))
    => /\ \E i \in DOMAIN explanation :
            explanation[i].node = last.call /\ explanation[i].color = "red"
       /\ last.did = (IF has_body_kind(last.call) THEN "recurse" ELSE "next")
       /\ has_body_kind(last.call) => last.call \in Range(expanded)

\* C12 witness: the explanation of A has rendered the unannotated method U,
\* walked its body and rendered B, which A reaches through U alone.
C12_Witness ==
    /\ Explaining /\ UNSAFE_CALLS[IF pc = "report" THEN unsafe_i - 1 ELSE unsafe_i] = "A"
    /\ prog.calls["A"] = <<"U">> /\ prog.calls["U"] = <<"B">>
    /\ Len(explanation) >= 3
    /\ explanation[2].node = "U" /\ explanation[2].color = "red"
    /\ explanation[3].node = "B" /\ explanation[3].level = 2

\* C13: when an explanation is over, every rendered method, constructor and free
\* function has had its calls walked, safe or not, and every bound, non-excluded
\* call in a walked body has its target's name rendered.
C13_ExplanationComplete ==
    (pc = "report" /\ unsafe_i > 1)
    => /\ \A i \in DOMAIN explanation :
            has_body_kind(explanation[i].node) => explanation[i].node \in Range(expanded)
       /\ \A n \in Range(expanded) : \A r \in live_refs(n) :
            fully_qualified_pretty(r) \in rendered(explanation)

\* C13 witness: A calls the unannotated U and then the constructor K; the
\* explanation rendered U, went below U to B, and came back to render K.
C13_Witness ==
    /\ pc = "report" /\ unsafe_i > 1
    /\ Len(explanation) >= 4
    /\ explanation[1].node = "A"
    /\ explanation[2].node = "U" /\ explanation[2].color = "red"
    /\ explanation[3].node = "B" /\ explanation[3].level = 2
    /\ explanation[4].node = "K" /\ explanation[4].level = 1

\* C14: in an explanation every name is rendered once: the names of its lines are
\* the names of PRINTED in the same order, without a repetition; the first line
\* is the entry point at level 0, and a line is at most one level below the
\* line before it.
C14_RenderedOnce ==
    Explaining
    => /\ Len(explanation) = Len(PRINTED)
       /\ \A i \in DOMAIN explanation :
            /\ explanation[i].what = "node"
            /\ explanation[i].name = PRINTED[i]
            /\ explanation[i].name = fully_qualified_pretty(explanation[i].node)
            /\ \A j \in DOMAIN explanation : explanation[j].name = explanation[i].name => j = i
            /\ explanation[i].level = 0 <=> i = 1
            /\ i > 1 => explanation[i].level <= explanation[i - 1].level + 1
       /\ explanation # <<>>
       /\ explanation[1].node = UNSAFE_CALLS[IF pc = "report" THEN unsafe_i - 1 ELSE unsafe_i]

\* C14 witness: the explanation of A meets B a second time, at A's own call
\* after it was rendered two levels down, and B's call back to A was skipped.
C14_Witness ==
    /\ pc = "print_funcs" /\ Len(stack) = 1 /\ stack[1].node = "A"
    /\ last.fn = "print_funcs" /\ last.did = "printed" /\ last.ref = "B"
    /\ prog.calls["B"] = <<"A">>
    /\ \E i \in DOMAIN explanation : explanation[i].node = "B" /\ explanation[i].level = 2

\* C15: in one traversal (one find_funcs call of show_info, one explanation) no
\* declaration has its call expressions extracted twice, the entry included.
C15_ExpandedOnce ==
    \A i, j \in DOMAIN expanded : expanded[i] = expanded[j] => i = j

\* The orders in which an AST producer can hand out the call expressions of a
\* body: a ranking of the positions, the same for every body.
Orders ==
    LET N == MaxCalls
    IN  {o \in [1..N -> 1..N] : \A i, j \in 1..N : o[i] = o[j] => i = j}

SourceOrder == [i \in 1..MaxCalls |-> i]

\* The list fs in the order o: the element of rank k comes k-th.
Permuted(fs, o) ==
    [k \in 1..Len(fs) |->
        fs[CHOOSE i \in 1..Len(fs) : Cardinality({j \in 1..Len(fs) : o[j] <= o[i]}) = k]]

\* find_funcs(node, ...) as a function: the loop of lines 124 to 147 from the
\* i-th call expression on, with PRINTED and TRANSLATE_UNITS as arguments and
\* get_call_expr handing out the call expressions in the order o.  The result
\* is the value returned.
RECURSIVE find_funcs_from(_, _, _, _, _)
find_funcs_from(node, i, printed, units, o) ==
    LET fs == Permuted(get_call_expr(Cursor(node)), o)
    IN  IF i > Len(fs) THEN TRUE
        ELSE IF skip_reason(fs[i], printed) # "no"
             THEN find_funcs_from(node, i + 1, printed, units, o)
             ELSE LET r == upgrade(fs[i].referenced, units)
                      p == remember(r.call, printed)
                  IN  IF ~mt_safe(r.call) THEN FALSE
                      ELSE IF expandable(r.call)
                           THEN find_funcs_from(r.call, 1, p, r.units, o)
                           ELSE find_funcs_from(node, i + 1, p, r.units, o)

find_funcs(node, printed, units, o) == find_funcs_from(node, 1, printed, units, o)

\* The function agrees with the steps: in the source order it yields the value
\* the find_funcs call of show_info returned.
find_funcs_agrees ==
    (run = 1 /\ pc = "show_info" /\ verdict.node # None)
    => find_funcs(verdict.node, verdict.start, TRANSLATE_UNITS, SourceOrder) = verdict.value

\* C16: when find_funcs has returned to show_info, in the first call of main,
\* for an entry point checked with an empty PRINTED, the value is the value it
\* returns under every other order of the call expressions of each body.
C16_VerdictOrderIndependent ==
    (run = 1 /\ pc = "show_info" /\ verdict.node # None /\ verdict.start = <<>>)
    => \A o \in Orders : find_funcs(verdict.node, <<>>, TRANSLATE_UNITS, o) = verdict.value

\* C17: in one call of main no file is handed to INDEX.parse twice, by main's
\* first loop or by find_usr.
C17_ParsedOnce ==
    \A i, j \in DOMAIN parses : parses[i] = parses[j] => i = j

\* C18: TRANSLATE_UNITS holds no unit with a diagnostic of error or fatal
\* severity.
C18_CacheHoldsCleanUnits ==
    \A q \in DOMAIN TRANSLATE_UNITS : ~has_errors(TRANSLATE_UNITS[q])

\* main has printed an explanation for every entry of UNSAFE_CALLS, in order,
\* and then the count of UNSAFE_CALLS.
Reported ==
    LET firsts == {i \in DOMAIN output :
                      output[i].what = "node" /\ output[i].level = 0}
        seps == {i \in DOMAIN output : output[i].what = "--------------"}
    IN  /\ output # <<>>
        /\ output[Len(output)].what = "count"
        /\ output[Len(output)].level = Len(UNSAFE_CALLS)
        /\ Cardinality(seps) = Len(UNSAFE_CALLS)
        /\ Cardinality(firsts) = Len(UNSAFE_CALLS)
        /\ \A i \in firsts :
              output[i].node = UNSAFE_CALLS[Cardinality({j \in firsts : j <= i})]

\* C19: every call of main that has begun to read the units comes to the end
\* with the explanations and the final count printed, whatever the diagnostics
\* of the units.
C19_CountEmitted ==
    (pc = "read") ~> (pc = "done" /\ Reported)

\* The declarations reached from d through bound, non-excluded calls along a
\* chain whose inner declarations all carry MT_SAFE or are constructors.
RECURSIVE safe_reach_more(_)
safe_reach_more(R) ==
    LET N == R \cup UNION {callees(x) : x \in {y \in R : ~unsafe(y)}}
    IN  IF N = R THEN R ELSE safe_reach_more(N)

safe_reach(d) == safe_reach_more(callees(d))

\* C20: find_funcs returns False only at a call to a declaration that is neither
\* MT_SAFE nor a constructor and that the entry point reaches along a chain of
\* MT_SAFE declarations and constructors; every entry of UNSAFE_CALLS reaches
\* such a declaration.
C20_NoFalsePositive ==
    /\ (last.fn = "find_funcs" /\ last.did = "return False")
       => /\ verdict.value = FALSE
          /\ unsafe(last.call)
          /\ last.call \in safe_reach(verdict.node)
    /\ (verdict.node # None /\ verdict.value = FALSE)
       => \E d \in safe_reach(verdict.node) : unsafe(d)
    /\ \A i \in DOMAIN UNSAFE_CALLS : \E d \in safe_reach(UNSAFE_CALLS[i]) : unsafe(d)

\* C20 witness: the check of A returned False two calls down, at the call of
\* the unannotated U in the body of the constructor K.
C20_Witness ==
    /\ verdict.node = "A" /\ verdict.value = FALSE
    /\ last.fn = "find_funcs" /\ last.did = "return False"
    /\ last.node = "K" /\ last.call = "U"
    /\ UNSAFE_CALLS # <<>> /\ UNSAFE_CALLS[Len(UNSAFE_CALLS)] = "A"

====
